---- MODULE Spec2Model ----
(***************************************************************************)
(* Network-data acquisition and caching pipeline of the traffic dashboard: *)
(*   - geo-source client   (services/geoAdminApi : loadNationalRoads,      *)
(*                          loadRouteData, loadByZone, loadByMultipleZones,*)
(*                          loadNationalRoadsWithFallback, isRampSegment)  *)
(*   - local cache store   (services/networkCache : getFromCache,          *)
(*                          saveToCache, isCacheValid, clearCache)         *)
(*   - loader              (services/networkLoader : loadNetworkData)      *)
(*   - status registry     (services/systemStatus : updateSystemStatus)    *)
(*                                                                         *)
(* The JavaScript event loop is modelled by one action per run of          *)
(* synchronous code: a call runs up to its first await, and every          *)
(* completion of an awaited operation (a cache transaction, a remote       *)
(* query) runs the continuation up to the next await.                      *)
(***************************************************************************)
EXTENDS Integers, Sequences, FiniteSets, TLC

(***************************************************************************)
(* Bounds of the model.                                                    *)
(***************************************************************************)
\* ROUTE_NUMBERS holds 25 routes; the model keeps the first NumRoutes.
NumRoutes == 3
\* chunkSize of loadNationalRoads is 5; scaled so that NumRoutes spans two batches.
RouteChunkSize == 2
\* the 0.5-degree grid of loadByMultipleZones holds 50 zones; the model keeps NumZones.
NumZones == 3
\* chunkSize of loadByMultipleZones is 10; scaled like RouteChunkSize.
ZoneChunkSize == 2
\* loadNationalRoadsWithFallback accepts the primary result when it holds more
\* than 1000 features; scaled to the size of the modelled responses.
MinFeatures == 1
\* longest list of records one remote response carries
MaxRecords == 2
\* number of loadNetworkData calls in one behaviour
MaxLoads == 2
\* the clock runs over MaxDays cache durations
MaxDays == 1
\* number of calls the direct caller of the cache makes in one behaviour
MaxCalls == 4
\* callbacks that may subscribe to the status registry
NumListeners == 2
\* updateSystemStatus calls made directly on the registry
MaxUpdates == 3

(***************************************************************************)
(* Program constants.                                                      *)
(***************************************************************************)
CACHE_DURATION_MS == 24 * 60 * 60 * 1000

\* the instants Date.now() takes: each multiple of the cache duration and the
\* millisecond before it
Instants == {t \in {k * CACHE_DURATION_MS - e : k \in 0..MaxDays, e \in {0, 1}} : t >= 0}

(***************************************************************************)
(* JavaScript values.                                                      *)
(* Objects are functions from property names to values; NoObj (no          *)
(* property at all) stands for undefined/null where an object is expected. *)
(* A numeric identifier 0 stands for 0 and for a missing identifier: `||`  *)
(* and `&&` treat both alike.  Strings that the code inspects are          *)
(* sequences of characters.                                                *)
(***************************************************************************)
NoObj == <<>>
None == [none |-> TRUE]

Truthy(x) == x # 0
Or(a, b) == IF Truthy(a) THEN a ELSE b
OrObj(a, b) == IF a # NoObj THEN a ELSE b

\* { ...a, ...b } : the properties of b overwrite those of a
Spread(a, b) == [k \in (DOMAIN a) \cup (DOMAIN b) |-> IF k \in DOMAIN b THEN b[k] ELSE a[k]]

Prop(o, k, default) == IF k \in DOMAIN o THEN o[k] ELSE default

Min(a, b) == IF a < b THEN a ELSE b

(***************************************************************************)
(* geoAdminApi: ramp classification and ingestion of one raw record.       *)
(***************************************************************************)
\* strassennummer.includes('_')
isRampSegment(properties) ==
    LET strassennummer == Prop(properties, "strassennummer", <<>>)
    IN \E i \in 1..Len(strassennummer) : strassennummer[i] = "_"

\* the Feature built by the map() callback of loadRouteData
RouteFeatureNeverRamp(result) ==
    LET props == OrObj(result.attrs, OrObj(result.properties, [x \in {} |-> 0]))
    IN [ id |-> Or(result.featureId, result.id),
         geometry |-> result.geometry,
         properties |-> Spread(Spread([id |-> Or(result.featureId, result.id)], props),
                               [isRamp |-> FALSE]) ]

RouteFeature(result) ==
    LET props == OrObj(result.attrs, OrObj(result.properties, [x \in {} |-> 0]))
    IN [ id |-> Or(result.featureId, result.id),
         geometry |-> result.geometry,
         properties |-> Spread(Spread([id |-> Or(result.featureId, result.id)], props),
                               [isRamp |-> isRampSegment(props)]) ]

\* the Feature built by the map() callback of loadByZone; reading a property of
\* an undefined `properties` throws, which fails the whole zone query
ZoneThrows(result) == result.properties = NoObj

ZoneFeature(result) ==
    [ id |-> Or(result.featureId, result.id),
      geometry |-> result.geometry,
      properties |-> Spread(Spread([id |-> Or(result.featureId, result.id)], result.properties),
                            [isRamp |-> isRampSegment(result.properties)]) ]

(***************************************************************************)
(* The remote geodata service.  A query either fails (network error,       *)
(* non-success status, body that is not JSON) or answers with a list of    *)
(* raw records taken from a small catalogue:                               *)
(*   RecMain   a main-axis line, identifier 1                              *)
(*   RecCopy   another copy of identifier 1 with other attributes (a ramp),*)
(*             as a second partition may return it                         *)
(*   RecPoint  a kilometre point that carries its identifier in `id` only  *)
(*             and its attributes under `attrs`                            *)
(*   RecNoId   a record without any identifier                             *)
(***************************************************************************)
RecMain  == [featureId |-> 1, id |-> 1, geometry |-> "LineString", attrs |-> NoObj,
             properties |-> [strassennummer |-> <<"N", "1">>]]
RecCopy  == [featureId |-> 1, id |-> 1, geometry |-> "LineString", attrs |-> NoObj,
             properties |-> [strassennummer |-> <<"N", "1", "_", "Y">>]]
RecPoint == [featureId |-> 0, id |-> 2, geometry |-> "Point",
             attrs |-> [strassennummer |-> <<"N", "2">>], properties |-> NoObj]
RecNoId  == [featureId |-> 0, id |-> 0, geometry |-> "Point", attrs |-> NoObj,
             properties |-> [strassennummer |-> <<"N", "1">>]]

Catalogue == {RecMain, RecCopy, RecPoint, RecNoId}

RecordLists == UNION {[1..n -> Catalogue] : n \in 0..MaxRecords}

Failure == [ok |-> FALSE, results |-> <<>>]
Responses == {Failure} \cup {[ok |-> TRUE, results |-> l] : l \in RecordLists}

\* loadRouteData, as awaited inside the try/catch of loadNationalRoads: the
\* features of the response, or [] when the query failed
RouteResultFirstOnly(response) ==
    IF response.ok
    THEN [k \in 1..Min(1, Len(response.results)) |-> RouteFeature(response.results[k])]
    ELSE <<>>

RouteResult(response) ==
    IF response.ok
    THEN [k \in 1..Len(response.results) |-> RouteFeature(response.results[k])]
    ELSE <<>>

\* loadByZone(zone).catch(() => [])
ZoneResult(response) ==
    IF response.ok /\ \A k \in 1..Len(response.results) : ~ZoneThrows(response.results[k])
    THEN [k \in 1..Len(response.results) |-> ZoneFeature(response.results[k])]
    ELSE <<>>

(***************************************************************************)
(* geoAdminApi: partition units, batches and the merge loop.               *)
(***************************************************************************)
Routes == 1..NumRoutes
Zones == 1..NumZones

\* ROUTE_NUMBERS.slice(i, i + chunkSize), units numbered from 1
RouteChunkRest(i) == i..NumRoutes

RouteChunk(i) == i..Min(i + RouteChunkSize - 1, NumRoutes)
ZoneChunk(i) == i..Min(i + ZoneChunkSize - 1, NumZones)

\* feature.properties?.id || feature.id
DedupId(feature) == Or(Prop(feature.properties, "id", 0), feature.id)

\* the dedup identifiers of a list of features
Ids(features) == {DedupId(features[k]) : k \in 1..Len(features)}

EmptyMerge == [allFeatures |-> <<>>, seenIds |-> {}]

\* the inner loop of the merge: for (const feature of features) { ... }
RECURSIVE MergeFeaturesNoDedup(_, _)
MergeFeaturesNoDedup(acc, features) ==
    IF features = <<>> THEN acc
    ELSE MergeFeaturesNoDedup(
             [allFeatures |-> Append(acc.allFeatures, Head(features)),
              seenIds |-> acc.seenIds \cup {DedupId(Head(features))}],
             Tail(features))

RECURSIVE MergeFeaturesLastWins(_, _)
MergeFeaturesLastWins(acc, features) ==
    IF features = <<>> THEN acc
    ELSE LET feature == Head(features)
             featureId == DedupId(feature)
             next == IF ~Truthy(featureId) THEN acc
                     ELSE IF featureId \notin acc.seenIds
                     THEN [allFeatures |-> Append(acc.allFeatures, feature),
                           seenIds |-> acc.seenIds \cup {featureId}]
                     ELSE [acc EXCEPT !.allFeatures =
                              [k \in 1..Len(@) |-> IF DedupId(@[k]) = featureId
                                                   THEN feature ELSE @[k]]]
         IN MergeFeaturesLastWins(next, Tail(features))

RECURSIVE MergeFeatures(_, _)
MergeFeatures(acc, features) ==
    IF features = <<>> THEN acc
    ELSE LET feature == Head(features)
             featureId == DedupId(feature)
             next == IF Truthy(featureId) /\ featureId \notin acc.seenIds
                     THEN [allFeatures |-> Append(acc.allFeatures, feature),
                           seenIds |-> acc.seenIds \cup {featureId}]
                     ELSE acc
         IN MergeFeatures(next, Tail(features))

\* the outer loop: for (const { features } of results), in the order of the chunk
RECURSIVE MergeChunkUntilEmpty(_, _, _)
MergeChunkUntilEmpty(acc, results, units) ==
    IF units = {} THEN acc
    ELSE LET u == CHOOSE v \in units : \A w \in units : v <= w
         IN IF results[u] = <<>> THEN acc
            ELSE MergeChunkUntilEmpty(MergeFeatures(acc, results[u]), results, units \ {u})

RECURSIVE MergeChunkDescending(_, _, _)
MergeChunkDescending(acc, results, units) ==
    IF units = {} THEN acc
    ELSE LET u == CHOOSE v \in units : \A w \in units : v >= w
         IN MergeChunkDescending(MergeFeatures(acc, results[u]), results, units \ {u})

RECURSIVE MergeChunk(_, _, _)
MergeChunk(acc, results, units) ==
    IF units = {} THEN acc
    ELSE LET u == CHOOSE v \in units : \A w \in units : v <= w
         IN MergeChunk(MergeFeatures(acc, results[u]), results, units \ {u})

FeatureCollection(features) == [type |-> "FeatureCollection", features |-> features]

(***************************************************************************)
(* networkCache: the single slot of the object store, kept under           *)
(* CACHE_KEY.  `cache` is None when the store holds no record.             *)
(***************************************************************************)
\* the three ways an IndexedDB operation ends: the request succeeds, the
\* database cannot be opened (caught inside the operation), the request
\* itself errors (the returned promise rejects)
StorageOutcomes == {"ok", "openError", "requestError"}

\* the record saveToCache puts
CacheEntryNoCount(data, t) == [data |-> data, timestamp |-> t, featureCount |-> 0]

CacheEntry(data, t) == [data |-> data, timestamp |-> t, featureCount |-> Len(data.features)]

\* what getFromCache resolves to: request.result || null, and null when the
\* database cannot be opened
GetFromCache(store, outcome) == IF outcome = "ok" THEN store ELSE None

\* the store after saveToCache(data) at instant t: store.put(cacheEntry)
SaveToCacheAdd(store, data, outcome, t) ==
    IF outcome = "ok" /\ store = None THEN CacheEntry(data, t) ELSE store

SaveToCacheIfNewer(store, data, outcome, t) ==
    IF outcome = "ok" /\ (store = None \/ store.timestamp < t)
    THEN CacheEntry(data, t) ELSE store

SaveToCacheDespiteError(store, data, outcome, t) ==
    IF outcome # "openError" THEN CacheEntry(data, t) ELSE store

SaveToCache(store, data, outcome, t) ==
    IF outcome = "ok" THEN CacheEntry(data, t) ELSE store

\* the store after clearCache(): store.delete(CACHE_KEY)
ClearCacheKeepsEntry(store, outcome) == store

ClearCache(store, outcome) == IF outcome = "ok" THEN None ELSE store

\* isCacheValid, given what its getFromCache resolved to
IsCacheValidSeconds(cached, t) ==
    IF cached = None THEN FALSE ELSE t - cached.timestamp < 24 * 60 * 60

IsCacheValid(cached, t) ==
    IF cached = None THEN FALSE ELSE t - cached.timestamp < CACHE_DURATION_MS

(***************************************************************************)
(* systemStatus: the registry and updateSystemStatus.                      *)
(***************************************************************************)
SystemIds == {"app", "network-layer", "tomtom-api", "monitoring-engine", "deviation-system"}

defaultSystems ==
    [id \in SystemIds |->
        IF id = "app" THEN [id |-> id, state |-> "online"]
        ELSE IF id = "network-layer" THEN [id |-> id, state |-> "unknown"]
        ELSE [id |-> id, state |-> "offline", details |-> [configured |-> FALSE]]]

\* store.systems after updateSystemStatus(systemId, update) at instant t
UpdateSystemStatusUpsert(store, systemId, update, t) ==
    (systemId :> Spread(Spread(IF systemId \in DOMAIN store THEN store[systemId]
                                                               ELSE [id |-> systemId],
                               update),
                        [lastCheck |-> t])) @@ store

UpdateSystemStatus(store, systemId, update, t) ==
    IF systemId \in DOMAIN store
    THEN [store EXCEPT ![systemId] = Spread(Spread(@, update), [lastCheck |-> t])]
    ELSE store

(***************************************************************************)
(* networkLoader: computeStats and the status updates of loadNetworkData.  *)
(***************************************************************************)
IsLine(f) == f.geometry \in {"LineString", "MultiLineString"}

computeStats(data) ==
    LET features == data.features
        lines == {k \in 1..Len(features) : IsLine(features[k])}
        points == {k \in 1..Len(features) : features[k].geometry = "Point"}
        mainAxes == {k \in lines : ~isRampSegment(features[k].properties)}
        ramps == {k \in lines : isRampSegment(features[k].properties)}
    IN [ totalFeatures |-> Len(features),
         mainAxes |-> Cardinality(mainAxes),
         ramps |-> Cardinality(ramps),
         points |-> Cardinality(points) ]

\* the object literals handed to updateSystemStatus('network-layer', ...); the
\* age printed inside the cache-hit message is left out of the message text
CacheHitUpdate(cached, stats) ==
    [ status |-> "online", message |-> "Cache local", lastUpdate |-> cached.timestamp,
      details |-> [source |-> "cache", features |-> stats.totalFeatures] ]

LoadingUpdate == [ status |-> "loading", message |-> "Telechargement en cours..." ]

ApiUpdate(stats, t) ==
    [ status |-> "online", message |-> "API geo.admin.ch", lastUpdate |-> t,
      details |-> [source |-> "api", features |-> stats.totalFeatures] ]

StaleUpdate(cached, stats) ==
    [ status |-> "degraded", message |-> "Cache perime (API indisponible)",
      lastUpdate |-> cached.timestamp,
      details |-> [source |-> "stale-cache", features |-> stats.totalFeatures] ]

OfflineUpdate == [ status |-> "offline", message |-> "Erreur chargement" ]

\* the update of the map's load handler when loadNetworkData rejected
FallbackUpdate(error) ==
    [ state |-> "degraded", lastError |-> "Utilisation des donnees mock",
      details |-> [source |-> "Donnees locales (fallback)", error |-> error] ]

(***************************************************************************)
(* State.                                                                  *)
(***************************************************************************)
VARIABLES
    now,      \* Date.now()
    cache,    \* the record under CACHE_KEY in the object store, or None
    systems,  \* store.systems of the status registry
    loader,   \* the loadNetworkData calls: position and locals of each
    loads,    \* number of loadNetworkData calls made so far
    client,   \* a direct caller of the cache operations: its last call and its history
    log,      \* what the remote service answered to the queries of the strategy under way
    observer, \* store.listeners of the status registry, and what the listeners were told
    map       \* the map component: its load handler and what it shows

vars == <<now, cache, systems, loader, loads, client, log, observer, map>>

\* the callers whose loadNetworkData calls may be running
Loaders == {"map", "refresh"}

\* a call that has not started.  The fields after `result` record what
\* happened during the call:
\*   branch       the branch of loadNetworkData that settled the promise
\*   updates      the objects handed to updateSystemStatus, in order
\*   queries      number of remote queries issued
\*   answered     some remote query was answered (did not fail)
\*   failed       some remote query failed
\*   returned     the truthy identifiers of the features the settled queries of
\*                the strategy under way have returned
\*   primary      number of features of `result`, the collection of
\*                loadNationalRoads that loadNationalRoadsWithFallback holds
\*                while it runs on (-1 before and after)
\*   duplicates   the merge loop discarded a feature whose identifier was seen
\*   writes, deletes   cache records put, cache records deleted
\*   faults       some cache operation ended with a storage error
\*   began        rank of the fetch of the call among the fetches of the calls
\*                in progress or last settled: 1 when no other had started
\*                its fetch, 0 while the call has not started one
\*   called       the cache record in the store when the call was made
\*   calledStale  that record was CACHE_DURATION_MS old or older at that instant
Idle ==
    [ pc |-> "idle", forceRefresh |-> FALSE,
      strategy |-> "none", i |-> 0, inflight |-> {}, results |-> <<>>,
      merge |-> EmptyMerge, data |-> None, result |-> None,
      branch |-> "none", updates |-> <<>>, queries |-> 0, answered |-> FALSE,
      failed |-> FALSE, returned |-> {}, primary |-> -1,
      duplicates |-> FALSE, writes |-> 0, deletes |-> 0, faults |-> FALSE,
      began |-> 0,
      called |-> None, calledStale |-> FALSE ]

\* a call of a cache operation.  `before` is the record in the store when the
\* operation ran, `at` the instant, `outcome` the way its IndexedDB work ended.
NoCall ==
    [ op |-> "none", arg |-> None, outcome |-> "ok", settled |-> "none",
      result |-> None, before |-> None, at |-> 0 ]

\* the direct caller of the cache: its last two calls, and
\*   register   what a single-slot register would hold after the calls made:
\*              the collection of the last saveToCache if no clearCache followed
\*   clean      every saveToCache and clearCache so far ended with outcome "ok"
\*   calls      number of calls made
NoClient ==
    [ last |-> NoCall, prev |-> NoCall, register |-> None, clean |-> TRUE, calls |-> 0 ]

\* no query answered yet.  `answers` maps the units of the strategy under way to
\* the raw responses the service gave, `order` lists them as they settled, and
\* `primary` is the collection loadNationalRoads returned, once the last route
\* has settled.
NoLog == [answers |-> <<>>, order |-> <<>>, primary |-> None]

\* the callbacks that components hand to subscribeToStatusChanges
Callbacks == 1..NumListeners

\* store.listeners is empty at start-up.  The other fields record what happened:
\*   calls     how many times each callback has been called
\*   saw       what getAllSystemStatuses() gave a callback when last called
\*   updates   number of updateSystemStatus calls made
\*   last      the arguments of the last updateSystemStatus call
NoObserver ==
    [ listeners |-> {}, calls |-> [cb \in Callbacks |-> 0],
      saw |-> [cb \in Callbacks |-> NoObj], updates |-> 0,
      last |-> [systemId |-> "none", update |-> NoObj] ]

\* the map component before its 'load' event: useState(true) for isLoading, no
\* dataset, no source added.  `pending` records isLoading as it was when the
\* source and the layers were added.
NoMap ==
    [ pc |-> "mount", isLoading |-> TRUE, networkData |-> None, layers |-> FALSE,
      pending |-> FALSE ]

Init ==
    /\ now = 0
    /\ cache = None
    /\ systems = defaultSystems
    /\ loader = [p \in Loaders |-> Idle]
    /\ loads = 0
    /\ client = NoClient
    /\ log = NoLog
    /\ observer = NoObserver
    /\ map = NoMap

\* updateSystemStatus('network-layer', update): the record of the call l, and
\* the registry afterwards
Emit(l, update) == [l EXCEPT !.updates = Append(@, update)]
Registry(update) == UpdateSystemStatus(systems, "network-layer", update, now)

\* the promise of loadNetworkData settles
Resolve(l, branch, result) ==
    [l EXCEPT !.pc = "resolved", !.branch = branch, !.result = result]
Reject(l, branch, error) ==
    [l EXCEPT !.pc = "rejected", !.branch = branch, !.result = [error |-> error]]

\* a cache operation of the call ended with `outcome`
Storage(l, outcome) == [l EXCEPT !.faults = @ \/ outcome # "ok"]

\* loadNationalRoadsWithFallback() runs into loadNationalRoads up to its first
\* await, which issues the queries of the first batch of routes
StartRoutes(l) ==
    [l EXCEPT !.pc = "fetch", !.strategy = "routes", !.i = 1,
              !.inflight = RouteChunk(1), !.results = <<>>, !.merge = EmptyMerge,
              !.returned = {},
              !.queries = @ + Cardinality(RouteChunk(1))]

\* loadByMultipleZones() up to its first await
StartZones(l) ==
    [l EXCEPT !.pc = "fetch", !.strategy = "zones", !.i = 1,
              !.inflight = ZoneChunk(1), !.results = <<>>, !.merge = EmptyMerge,
              !.returned = {},
              !.queries = @ + Cardinality(ZoneChunk(1))]

\* lines 87-95 of loadNetworkData: the 'loading' update, then the fetch starts
StartFetch(l) ==
    [StartRoutes(Emit(l, LoadingUpdate)) EXCEPT
        !.began = 1 + Cardinality({q \in Loaders : loader[q].began > 0 /\ loader[q] # l})]

(***************************************************************************)
(* loadNetworkData(forceRefresh) is called: it runs up to its first await, *)
(* clearCache() when forceRefresh is set and isCacheValid() otherwise.     *)
(***************************************************************************)
Call(p, forceRefresh) ==
    /\ loader[p].pc \in {"idle", "resolved", "rejected"}
    /\ loads < MaxLoads
    /\ loader' = [loader EXCEPT ![p] =
                     [Idle EXCEPT !.pc = IF forceRefresh THEN "clearCache" ELSE "isCacheValid",
                                  !.forceRefresh = forceRefresh, !.called = cache,
                                  !.calledStale = cache # None /\ ~IsCacheValid(cache, now)]]
    /\ loads' = loads + 1
    /\ UNCHANGED <<now, cache, systems, client, log, observer>>

\* await clearCache() completes
ClearCacheDone(p, outcome) ==
    /\ loader[p].pc = "clearCache"
    /\ cache' = ClearCache(cache, outcome)
    /\ CASE outcome = "ok" ->
              loader' = [loader EXCEPT ![p].pc = "isCacheValid", ![p].deletes = @ + 1]
         [] outcome = "openError" ->
              loader' = [loader EXCEPT ![p] = [Storage(@, outcome) EXCEPT !.pc = "isCacheValid"]]
         [] outcome = "requestError" ->
              loader' = [loader EXCEPT ![p] =
                            Reject(Storage(@, outcome), "storage", "Erreur suppression cache")]
    /\ UNCHANGED <<now, systems, loads, client, log, observer, map>>

\* if (cacheValid && !forceRefresh)
UseCache(cacheValid, forceRefresh) == cacheValid /\ ~forceRefresh

\* await isCacheValid() completes
IsCacheValidDone(p, outcome) ==
    /\ loader[p].pc = "isCacheValid"
    /\ IF outcome = "requestError"
       THEN /\ loader' = [loader EXCEPT ![p] =
                             Reject(Storage(@, outcome), "storage", "Erreur lecture cache")]
            /\ UNCHANGED systems
       ELSE LET cacheValid == IsCacheValid(GetFromCache(cache, outcome), now)
            IN IF UseCache(cacheValid, loader[p].forceRefresh)
               THEN /\ loader' = [loader EXCEPT ![p] =
                                     [Storage(@, outcome) EXCEPT !.pc = "getFromCache"]]
                    /\ UNCHANGED systems
               ELSE /\ loader' = [loader EXCEPT ![p] = StartFetch(Storage(@, outcome))]
                    /\ systems' = Registry(LoadingUpdate)
    /\ UNCHANGED <<now, cache, loads, client, log, observer, map>>

\* the cache-hit branch: await getFromCache() completes
GetFromCacheDone(p, outcome) ==
    /\ loader[p].pc = "getFromCache"
    /\ IF outcome = "requestError"
       THEN /\ loader' = [loader EXCEPT ![p] =
                             Reject(Storage(@, outcome), "storage", "Erreur lecture cache")]
            /\ UNCHANGED systems
       ELSE LET cached == GetFromCache(cache, outcome)
            IN IF cached # None
               THEN LET stats == computeStats(cached.data)
                        update == CacheHitUpdate(cached, stats)
                    IN /\ loader' = [loader EXCEPT ![p] =
                              Resolve(Emit(@, update), "hit",
                                      [ data |-> cached.data, source |-> "cache", stats |-> stats,
                                        cacheInfo |-> [ageMs |-> now - cached.timestamp,
                                                       timestamp |-> cached.timestamp] ])]
                       /\ systems' = Registry(update)
               ELSE /\ loader' = [loader EXCEPT ![p] = StartFetch(Storage(@, outcome))]
                    /\ systems' = Registry(LoadingUpdate)
    /\ UNCHANGED <<now, cache, loads, client, log, observer, map>>

(***************************************************************************)
(* A remote query of the batch in flight settles.  When it is the last one *)
(* of its batch, Promise.all resolves and the code runs on: it merges the  *)
(* results of the batch in the order of the chunk, then issues the next    *)
(* batch, or leaves the loop.  loadNationalRoadsWithFallback returns the   *)
(* collection of the routes when it is large enough and starts the zones   *)
(* otherwise; whatever the zones give is returned.  loadNetworkData then   *)
(* runs up to await saveToCache(data).                                     *)
(***************************************************************************)
EnoughDataAtLeast(result) == Len(result.features) >= MinFeatures

EnoughData(result) == Len(result.features) > MinFeatures

Fetched(l, data) == [l EXCEPT !.pc = "saveToCache", !.data = data, !.inflight = {},
                              !.results = <<>>, !.primary = -1]

AfterBatch(l) ==
    LET routes == l.strategy = "routes"
        chunk  == IF routes THEN RouteChunk(l.i) ELSE ZoneChunk(l.i)
        merged == MergeChunk(l.merge, l.results, chunk)
        next   == l.i + (IF routes THEN RouteChunkSize ELSE ZoneChunkSize)
        more   == next <= (IF routes THEN NumRoutes ELSE NumZones)
        batch  == IF routes THEN RouteChunk(next) ELSE ZoneChunk(next)
        result == FeatureCollection(merged.allFeatures)
        seen   == \E u \in chunk : \E k \in 1..Len(l.results[u]) :
                      /\ Truthy(DedupId(l.results[u][k]))
                      /\ \/ DedupId(l.results[u][k]) \in l.merge.seenIds
                         \/ \E v \in chunk : \E j \in 1..Len(l.results[v]) :
                               /\ <<v, j>> # <<u, k>>
                               /\ DedupId(l.results[v][j]) = DedupId(l.results[u][k])
        done   == [l EXCEPT !.merge = merged, !.duplicates = @ \/ seen,
                            !.primary = IF routes /\ ~more THEN Len(merged.allFeatures) ELSE @]
    IN IF more
       THEN [done EXCEPT !.i = next, !.inflight = batch, !.results = <<>>,
                         !.queries = @ + Cardinality(batch)]
       ELSE IF routes /\ ~EnoughData(result)
            THEN StartZones(done)
            ELSE Fetched(done, result)

QuerySettled(p, u, response) ==
    /\ loader[p].pc = "fetch"
    /\ u \in loader[p].inflight
    /\ LET features == IF loader[p].strategy = "routes"
                       THEN RouteResult(response) ELSE ZoneResult(response)
           settled == [loader[p] EXCEPT !.inflight = @ \ {u},
                                        !.results = (u :> features) @@ @,
                                        !.answered = @ \/ response.ok,
                                        !.returned = @ \cup (Ids(features) \ {0}),
                                        !.failed = @ \/ ~response.ok]
       IN loader' = [loader EXCEPT ![p] =
                        IF settled.inflight = {} THEN AfterBatch(settled) ELSE settled]
    /\ UNCHANGED <<now, cache, systems, loads, client, observer, map>>

\* await saveToCache(data) completes.  A request error rejects inside the try
\* block of loadNetworkData: the catch block runs up to await getFromCache().
SaveToCacheDone(p, outcome) ==
    /\ loader[p].pc = "saveToCache"
    /\ cache' = SaveToCache(cache, loader[p].data, outcome, now)
    /\ LET data == loader[p].data
           stats == computeStats(data)
           update == ApiUpdate(stats, now)
           result == [data |-> data, source |-> "api", stats |-> stats]
       IN CASE outcome = "ok" ->
                 /\ loader' = [loader EXCEPT ![p] =
                                  Resolve(Emit([@ EXCEPT !.writes = @ + 1], update), "api", result)]
                 /\ systems' = Registry(update)
            [] outcome = "openError" ->
                 /\ loader' = [loader EXCEPT ![p] =
                                  Resolve(Emit(Storage(@, outcome), update), "api", result)]
                 /\ systems' = Registry(update)
            [] outcome = "requestError" ->
                 /\ loader' = [loader EXCEPT ![p] = [Storage(@, outcome) EXCEPT !.pc = "getStale"]]
                 /\ UNCHANGED systems
    /\ UNCHANGED <<now, loads, client, log, observer, map>>

\* the catch block: await getFromCache() completes
GetStaleDone(p, outcome) ==
    /\ loader[p].pc = "getStale"
    /\ IF outcome = "requestError"
       THEN /\ loader' = [loader EXCEPT ![p] =
                             Reject(Storage(@, outcome), "storage", "Erreur lecture cache")]
            /\ UNCHANGED systems
       ELSE LET cached == GetFromCache(cache, outcome)
            IN IF cached # None
               THEN LET stats == computeStats(cached.data)
                        update == StaleUpdate(cached, stats)
                    IN /\ loader' = [loader EXCEPT ![p] =
                              Resolve(Emit(Storage(@, outcome), update), "stale",
                                      [ data |-> cached.data, source |-> "cache", stats |-> stats,
                                        cacheInfo |-> [ageMs |-> now - cached.timestamp,
                                                       timestamp |-> cached.timestamp] ])]
                       /\ systems' = Registry(update)
               ELSE /\ loader' = [loader EXCEPT ![p] =
                              Reject(Emit(Storage(@, outcome), OfflineUpdate), "failure",
                                     "Erreur ecriture cache")]
                    /\ systems' = Registry(OfflineUpdate)
    /\ UNCHANGED <<now, cache, loads, client, log, observer, map>>

\* time passes.  Nothing reads the clock while remote queries are in flight
\* (only the cache operations and the status updates do), so the time that
\* passes during a fetch is let pass once its last query has settled.
Tick(t) ==
    /\ t > now
    /\ \A p \in Loaders : loader[p].pc # "fetch"
    /\ now' = t
    /\ UNCHANGED <<cache, systems, loader, loads, client, log, observer, map>>

(***************************************************************************)
(* Specification: the map loads the network when it mounts and again after *)
(* a reload of the page; the calls do not overlap.                         *)
(***************************************************************************)
Step(p) ==
    \/ \E forceRefresh \in BOOLEAN : Call(p, forceRefresh) /\ UNCHANGED map
    \/ \E outcome \in StorageOutcomes : ClearCacheDone(p, outcome)
    \/ \E outcome \in StorageOutcomes : IsCacheValidDone(p, outcome)
    \/ \E outcome \in StorageOutcomes : GetFromCacheDone(p, outcome)
    \/ \E u \in Routes \cup Zones, response \in Responses :
           QuerySettled(p, u, response) /\ UNCHANGED log
    \/ \E outcome \in StorageOutcomes : SaveToCacheDone(p, outcome)
    \/ \E outcome \in StorageOutcomes : GetStaleDone(p, outcome)

Next ==
    \/ Step("map")
    \/ \E t \in Instants : Tick(t)

Spec == Init /\ [][Next]_vars

(***************************************************************************)
(* Overlapping calls: the map and the refresh control both call            *)
(* loadNetworkData, and nothing makes one wait for the other; their steps  *)
(* interleave at every await.  The storage works, and the service answers  *)
(* a query with one of two versions of the network, or not at all.         *)
(***************************************************************************)
OverlapResponses ==
    { Failure,
      [ok |-> TRUE, results |-> <<RecMain, RecPoint>>],
      [ok |-> TRUE, results |-> <<RecCopy, RecPoint>>] }

OverlapStep(p) ==
    \/ \E forceRefresh \in BOOLEAN : Call(p, forceRefresh) /\ UNCHANGED map
    \/ ClearCacheDone(p, "ok")
    \/ IsCacheValidDone(p, "ok")
    \/ GetFromCacheDone(p, "ok")
    \/ \E u \in Routes \cup Zones, response \in OverlapResponses :
           QuerySettled(p, u, response) /\ UNCHANGED log
    \/ SaveToCacheDone(p, "ok")

OverlapNext ==
    \/ \E p \in Loaders : OverlapStep(p)
    \/ \E t \in Instants : Tick(t)

OverlapSpec == Init /\ [][OverlapNext]_vars

(***************************************************************************)
(* The status registry used directly: components subscribe and unsubscribe *)
(* callbacks, and callers update the record of a subsystem.  A callback    *)
(* reads the registry when it is called, as the status panel does.         *)
(***************************************************************************)
\* the identifiers handed to updateSystemStatus: two of the registry and one
\* that it does not know
UpdatedIds == {"network-layer", "tomtom-api", "traffic-cameras"}

\* the partial records handed to updateSystemStatus
StatusUpdates ==
    { LoadingUpdate,
      FallbackUpdate("Erreur lecture cache"),
      [state |-> "online", lastCheck |-> -1],
      [state |-> "offline", lastError |-> "HTTP 503", details |-> [configured |-> TRUE]] }

\* notifyListeners(): store.listeners.forEach(callback => callback()), each
\* callback reading the registry as it is then
NotifyEveryCallback(o, registry) ==
    [o EXCEPT !.calls = [cb \in Callbacks |-> @[cb] + 1],
              !.saw = [cb \in Callbacks |-> registry]]

NotifyListeners(o, registry) ==
    [o EXCEPT !.calls = [cb \in Callbacks |-> IF cb \in o.listeners THEN @[cb] + 1 ELSE @[cb]],
              !.saw = [cb \in Callbacks |-> IF cb \in o.listeners THEN registry ELSE @[cb]]]

updateSystemStatus(systemId, update) ==
    /\ observer.updates < MaxUpdates
    /\ systems' = UpdateSystemStatus(systems, systemId, update, now)
    /\ LET called == [observer EXCEPT !.updates = @ + 1,
                                      !.last = [systemId |-> systemId, update |-> update]]
       IN observer' = IF systemId \in DOMAIN systems
                      THEN NotifyListeners(called, systems')
                      ELSE called
    /\ UNCHANGED <<now, cache, loader, loads, client, log, map>>

subscribeToStatusChanges(callback) ==
    /\ callback \notin observer.listeners
    /\ observer' = [observer EXCEPT !.listeners = @ \cup {callback}]
    /\ UNCHANGED <<now, cache, systems, loader, loads, client, log, map>>

\* the function subscribeToStatusChanges returned is called
unsubscribe(callback) ==
    /\ callback \in observer.listeners
    /\ observer' = [observer EXCEPT !.listeners = @ \ {callback}]
    /\ UNCHANGED <<now, cache, systems, loader, loads, client, log, map>>

RegistryNext ==
    \/ \E systemId \in UpdatedIds, update \in StatusUpdates :
           updateSystemStatus(systemId, update)
    \/ \E callback \in Callbacks : subscribeToStatusChanges(callback)
    \/ \E callback \in Callbacks : unsubscribe(callback)
    \/ \E t \in Instants : Tick(t)

RegistrySpec == Init /\ [][RegistryNext]_vars

(***************************************************************************)
(* networkCache called directly (the cache panel, getNetworkCacheInfo,     *)
(* forceRefresh): one caller makes its calls one after the other; each     *)
(* action is one call, from the call to the settling of its promise.       *)
(***************************************************************************)
\* the collections handed to saveToCache
CacheData ==
    { FeatureCollection(<<>>),
      FeatureCollection(<<RouteFeature(RecMain)>>),
      FeatureCollection(<<RouteFeature(RecMain), RouteFeature(RecPoint)>>) }

\* the promise of a cache operation settles: a request that errors rejects it
\* with `error`, anything else resolves it with `value`
Settle(op, arg, outcome, value, error) ==
    [ op |-> op, arg |-> arg, outcome |-> outcome,
      settled |-> IF outcome = "requestError" THEN "rejected" ELSE "resolved",
      result |-> IF outcome = "requestError" THEN [error |-> error] ELSE value,
      before |-> cache, at |-> now ]

Called(call, register, mutation) ==
    /\ client.calls < MaxCalls
    /\ client' = [ last |-> call, prev |-> client.last, register |-> register,
                   clean |-> client.clean /\ (mutation => call.outcome = "ok"),
                   calls |-> client.calls + 1 ]
    /\ UNCHANGED <<now, systems, loader, loads, log, observer, map>>

getFromCache(outcome) ==
    /\ Called(Settle("getFromCache", None, outcome, GetFromCache(cache, outcome),
                     "Erreur lecture cache"),
              client.register, FALSE)
    /\ UNCHANGED cache

saveToCache(data, outcome) ==
    /\ Called(Settle("saveToCache", data, outcome, None, "Erreur ecriture cache"),
              data, TRUE)
    /\ cache' = SaveToCache(cache, data, outcome, now)

isCacheValid(outcome) ==
    /\ Called(Settle("isCacheValid", None, outcome,
                     IsCacheValid(GetFromCache(cache, outcome), now),
                     "Erreur lecture cache"),
              client.register, FALSE)
    /\ UNCHANGED cache

clearCache(outcome) ==
    /\ Called(Settle("clearCache", None, outcome, None, "Erreur suppression cache"),
              None, TRUE)
    /\ cache' = ClearCache(cache, outcome)

CacheNext ==
    \/ \E outcome \in StorageOutcomes : getFromCache(outcome)
    \/ \E data \in CacheData, outcome \in StorageOutcomes : saveToCache(data, outcome)
    \/ \E outcome \in StorageOutcomes : isCacheValid(outcome)
    \/ \E outcome \in StorageOutcomes : clearCache(outcome)
    \/ \E t \in Instants : Tick(t)

CacheSpec == Init /\ [][CacheNext]_vars

(***************************************************************************)
(* The map component.  Its 'load' handler runs once: it raises isLoading,  *)
(* calls loadNetworkData() and, when the promise has settled, takes the    *)
(* dataset of the result or the bundled one, lowers isLoading and adds the *)
(* source and the layers.  The store may hold the entry an earlier session *)
(* of the page has left.                                                   *)
(***************************************************************************)
\* the bundled dataset, cut down to its first feature
mockNetworkData ==
    FeatureCollection(<<[ geometry |-> "LineString",
                          properties |-> [ id |-> "A1-GE-NYON-PLUS",
                                           strassennummer |-> <<"N", "1">> ] ]>>)

MapInit ==
    /\ now = 0
    /\ cache \in {None} \cup {CacheEntry(data, 0) : data \in CacheData}
    /\ systems = defaultSystems
    /\ loader = [p \in Loaders |-> Idle]
    /\ loads = 0
    /\ client = NoClient
    /\ log = NoLog
    /\ observer = NoObserver
    /\ map = NoMap

\* the handler up to await loadNetworkData()
MapLoad ==
    /\ map.pc = "mount"
    /\ Call("map", FALSE)
    /\ map' = [map EXCEPT !.pc = "awaiting", !.isLoading = TRUE]

\* the finally block
FinallyKeepsLoading(m) == m

Finally(m) == [m EXCEPT !.isLoading = FALSE]

\* the promise has settled: the rest of the handler
MapLoaded ==
    /\ map.pc = "awaiting"
    /\ loader["map"].pc \in {"resolved", "rejected"}
    /\ LET l == loader["map"]
           networkData == IF l.pc = "resolved" THEN l.result.data ELSE mockNetworkData
           after == Finally([map EXCEPT !.networkData = networkData])
       IN /\ map' = [after EXCEPT !.pc = "ready", !.layers = TRUE,
                                  !.pending = after.isLoading]
          /\ systems' = IF l.pc = "resolved" THEN systems
                        ELSE UpdateSystemStatus(systems, "network-layer",
                                                FallbackUpdate(l.result.error), now)
    /\ UNCHANGED <<now, cache, loader, loads, client, log, observer>>

MapNext ==
    \/ MapLoad
    \/ \E outcome \in StorageOutcomes : IsCacheValidDone("map", outcome)
    \/ \E outcome \in StorageOutcomes : GetFromCacheDone("map", outcome)
    \/ \E u \in Routes \cup Zones, response \in Responses :
           QuerySettled("map", u, response) /\ UNCHANGED log
    \/ \E outcome \in StorageOutcomes : SaveToCacheDone("map", outcome)
    \/ \E outcome \in StorageOutcomes : GetStaleDone("map", outcome)
    \/ MapLoaded
    \/ \E t \in Instants : Tick(t)

MapSpec == MapInit /\ [][MapNext]_vars

(***************************************************************************)
(* loadNationalRoadsWithFallback called on its own.  loader["map"] holds   *)
(* the locals of the run; pc "saveToCache" is where the collection has     *)
(* been returned to the caller.  Each answer of the service is logged, and *)
(* so is the collection loadNationalRoads returns; the log starts afresh   *)
(* with the first answer to a zone query.                                  *)
(***************************************************************************)
loadNationalRoadsWithFallback ==
    /\ loader["map"].pc = "idle"
    /\ loader' = [loader EXCEPT !["map"] = StartRoutes(Idle)]
    /\ log' = NoLog
    /\ UNCHANGED <<now, cache, systems, loads, client, observer, map>>

QueryAnswered(u, response) ==
    /\ QuerySettled("map", u, response)
    /\ LET l == loader["map"]
           last == /\ l.strategy = "routes" /\ l.inflight = {u}
                   /\ l.i + RouteChunkSize > NumRoutes
           merged == MergeChunk(l.merge, (u :> RouteResult(response)) @@ l.results,
                                RouteChunk(l.i))
           base == IF log.primary # None THEN NoLog ELSE log
       IN log' = [ answers |-> (u :> response) @@ base.answers,
                   order |-> Append(base.order, u),
                   primary |-> IF last THEN FeatureCollection(merged.allFeatures)
                               ELSE None ]

FetchNext ==
    \/ loadNationalRoadsWithFallback
    \/ \E u \in Routes \cup Zones, response \in Responses : QueryAnswered(u, response)

FetchSpec == Init /\ [][FetchNext]_vars

(***************************************************************************)
(* Properties.                                                             *)
(***************************************************************************)
Settled(l) == l.pc \in {"resolved", "rejected"}

\* the promise of the call of p settles in this step
Settles(p) == ~Settled(loader[p]) /\ Settled(loader'[p])

NetworkLayer == systems["network-layer"]

\* every remote query the call issued has failed
EveryQueryFailed(l) == l.queries > 0 /\ ~l.answered

NoDuplicateIds(features) ==
    \A a, b \in 1..Len(features) : a # b => DedupId(features[a]) # DedupId(features[b])

\* C1: no two features of a collection built or returned by the geo-source
\* client (the collection of loadNationalRoads or of loadByMultipleZones while
\* it is merged, and the collection loadNationalRoadsWithFallback returns)
\* have the same dedup identifier, properties.id || id.
C1_DedupInvariant ==
    \A p \in Loaders :
        /\ NoDuplicateIds(loader[p].merge.allFeatures)
        /\ loader[p].data # None => NoDuplicateIds(loader[p].data.features)

\* a collection of two features returned by the route-by-route fetch although
\* a unit failed and the merge met an identifier it had already seen
C1_Witness ==
    \E p \in Loaders :
        /\ loader[p].data # None
        /\ loader[p].strategy = "routes"
        /\ Len(loader[p].data.features) = 2
        /\ loader[p].duplicates
        /\ loader[p].failed

\* C2: a call with forceRefresh = false that found an entry older than the
\* cache duration, whose remote queries all failed and whose cache operations
\* all succeeded, resolves with that entry's data and source "cache", leaves
\* the entry as it was, and the network-layer record has state degraded.
C2_StaleFallback ==
    \A p \in Loaders :
        LET l == loader[p] IN
        (/\ Settled(l) /\ ~l.forceRefresh /\ l.called # None /\ l.calledStale
         /\ EveryQueryFailed(l) /\ ~l.faults)
        => /\ l.pc = "resolved"
           /\ l.result.source = "cache"
           /\ l.result.data = l.called.data
           /\ cache = l.called
           /\ NetworkLayer.state = "degraded"

\* C3: a call that found no cache entry, whose remote queries all failed and
\* whose cache operations all succeeded, rejects, writes nothing to the cache,
\* and the network-layer record has state offline.
C3_TotalFailure ==
    \A p \in Loaders :
        LET l == loader[p] IN
        (Settled(l) /\ l.called = None /\ EveryQueryFailed(l) /\ ~l.faults)
        => /\ l.pc = "rejected"
           /\ l.writes = 0
           /\ cache = None
           /\ NetworkLayer.state = "offline"

\* C4: a call whose remote queries all failed either rejects or resolves with
\* the data of the entry in the cache and source "cache"; it never resolves
\* with source "api".
C4_NoSilentEmptyResult ==
    \A p \in Loaders :
        LET l == loader[p] IN
        (Settled(l) /\ EveryQueryFailed(l))
        => \/ l.pc = "rejected"
           \/ /\ l.result.source = "cache"
              /\ cache # None
              /\ l.result.data = cache.data

\* C5: loadNationalRoadsWithFallback returns a collection only when it holds
\* more features than the plausibility threshold: when the routes and then
\* the zones give too few features or none, it fails instead.
C5_InsufficientDataFails ==
    \A p \in Loaders : loader[p].data # None => EnoughData(loader[p].data)

\* what the cache-hit scenario promises of a call that has just settled: the
\* data of the entry found at the call, source "cache", the entry's age and
\* timestamp, no remote query, no cache write, no deletion
HitOutcome(l, store, t) ==
    /\ l.pc = "resolved"
    /\ l.result.source = "cache"
    /\ l.result.data = l.called.data
    /\ l.result.cacheInfo = [ageMs |-> t - l.called.timestamp, timestamp |-> l.called.timestamp]
    /\ l.queries = 0 /\ l.writes = 0 /\ l.deletes = 0
    /\ store = l.called

\* the call was made without forceRefresh on an entry that is younger than
\* the cache duration at instant t
FreshCall(l, t) ==
    /\ ~l.forceRefresh
    /\ l.called # None
    /\ t - l.called.timestamp < CACHE_DURATION_MS

\* C6 as stated: every call with forceRefresh = false on an entry that is
\* still younger than 24 hours when the call settles ends as HitOutcome says.
C6_FreshCacheAlways ==
    [][\A p \in Loaders :
          (Settles(p) /\ FreshCall(loader'[p], now')) => HitOutcome(loader'[p], cache', now')]_vars

\* C6, amended: every call with forceRefresh = false on an entry that is still
\* younger than 24 hours when the call settles, and whose cache reads all
\* succeeded, ends as HitOutcome says.
C6_FreshCacheReadable ==
    [][\A p \in Loaders :
          (Settles(p) /\ FreshCall(loader'[p], now') /\ ~loader'[p].faults)
          => HitOutcome(loader'[p], cache', now')]_vars

\* a cache hit on an entry of two features, one millisecond before it expires
C6_Witness ==
    \E p \in Loaders :
        /\ loader[p].branch = "hit"
        /\ ~loader[p].faults
        /\ Len(loader[p].result.data.features) = 2
        /\ loader[p].result.cacheInfo.ageMs = CACHE_DURATION_MS - 1

\* the call of p resolves in this step with source "api", and returns the
\* collection the remote client produced with its number of features
ResolvesFromApi(p) ==
    /\ Settles(p)
    /\ loader'[p].pc = "resolved"
    /\ loader'[p].result.source = "api"

ReturnsFetched(p) ==
    /\ loader'[p].result.data = loader[p].data
    /\ loader'[p].result.stats.totalFeatures = Len(loader[p].data.features)

HoldsFresh(store, data, t) ==
    /\ store # None
    /\ store.data = data
    /\ store.featureCount = Len(data.features)
    /\ t - store.timestamp < CACHE_DURATION_MS

\* C7 as stated: whenever a call resolves with source "api", it returns the
\* fetched collection and the cache holds that collection in a valid entry.
C7_ApiResultCachedAlways ==
    [][\A p \in Loaders :
          ResolvesFromApi(p)
          => /\ ReturnsFetched(p)
             /\ HoldsFresh(cache', loader[p].data, now')]_vars

\* C7, amended: whenever a call resolves with source "api", it returns the
\* fetched collection; when the database could be opened for the write the
\* cache then holds that collection in a valid entry, and otherwise the cache
\* is left as it was.
C7_ApiResultCachedWhenWritten ==
    [][\A p \in Loaders :
          ResolvesFromApi(p)
          => /\ ReturnsFetched(p)
             /\ loader'[p].writes = 1 => HoldsFresh(cache', loader[p].data, now')
             /\ loader'[p].writes = 0 => cache' = cache]_vars

\* a fetch of two features that replaced an older entry of the cache
C7_Witness ==
    \E p \in Loaders :
        /\ loader[p].branch = "api"
        /\ loader[p].writes = 1
        /\ loader[p].called # None
        /\ Len(loader[p].result.data.features) = 2
        /\ cache # loader[p].called
        /\ cache.data = loader[p].result.data

\* the call was made with forceRefresh on an entry younger than the cache
\* duration
ForcedOnFresh(l) == l.forceRefresh /\ l.called # None /\ ~l.calledStale

\* C8: a forced refresh on a fresh entry does nothing before clearCache() has
\* completed and never takes the cache-hit branch; once clearCache() has deleted
\* the entry the store is empty, and the call does not settle without having
\* queried the remote service.
C8_ForcedRefreshFetches ==
    \A p \in Loaders :
        LET l == loader[p] IN
        ForcedOnFresh(l)
        => /\ l.pc = "clearCache" => (l.updates = <<>> /\ l.queries = 0 /\ l.writes = 0)
           /\ l.branch # "hit"
           /\ (l.deletes = 1 /\ l.pc = "isCacheValid") => cache = None
           /\ (l.deletes = 1 /\ Settled(l)) => l.queries > 0

\* C9: a call that settled through one of the four branches (cache hit, fetch
\* success, stale fallback, total failure) has emitted exactly one update, and
\* that update carries a state among loading, online, degraded, offline.
C9_OneUpdatePerBranch ==
    \A p \in Loaders :
        LET l == loader[p] IN
        (Settled(l) /\ l.branch \in {"hit", "api", "stale", "failure"})
        => /\ Len(l.updates) = 1
           /\ "state" \in DOMAIN l.updates[1]
           /\ l.updates[1].state \in {"loading", "online", "degraded", "offline"}

\* C10: after a call resolved through the cache-hit branch or the
\* fetch-success branch, the network-layer record has state online.
C10_OnlineAfterSuccess ==
    \A p \in Loaders :
        (loader[p].pc = "resolved" /\ loader[p].branch \in {"hit", "api"})
        => NetworkLayer.state = "online"

\* C16: when the fetch has succeeded, loadNetworkData resolves with the
\* fetched collection and source "api" however the write to the cache ends
\* (stored, database unavailable, write request in error).
C16_WriteFailureStillApi ==
    [][\A p \in Loaders :
          (/\ loader[p].pc = "saveToCache" /\ loader[p].answered
           /\ loader'[p].pc # "saveToCache")
          => /\ loader'[p].pc = "resolved"
             /\ loader'[p].result.source = "api"
             /\ loader'[p].result.data = loader[p].data]_vars

Held(l) == Ids(l.merge.allFeatures) \cup
           UNION {Ids(l.results[u]) \ {0} : u \in DOMAIN l.results}

\* the queries a completed fetch has issued: one per route, and one per zone
\* when it went on to the zones
AllUnits(l) == NumRoutes + (IF l.strategy = "zones" THEN NumZones ELSE 0)

\* C18: a failed query adds no feature and does not abort the fetch: the
\* fetch never lets a call reject, it queries every unit, and every identifier
\* returned by a query that succeeded is in the collection.
C18_FailedUnitDoesNotAbort ==
    \A p \in Loaders :
        LET l == loader[p] IN
        /\ l.pc = "fetch" => Held(l) = l.returned
        /\ l.pc = "saveToCache"
           => (l.queries = AllUnits(l) /\ Ids(l.data.features) = l.returned)
        /\ (Settled(l) /\ l.failed /\ ~l.faults) => l.pc = "resolved"

\* the zones gave a feature although one of the queries had failed
C18_Witness ==
    \E p \in Loaders :
        /\ loader[p].pc = "saveToCache"
        /\ loader[p].strategy = "zones"
        /\ loader[p].failed
        /\ loader[p].data.features # <<>>

\* C19: zone queries are issued only in the step in which the last route
\* query settles, and only when the collection of the routes holds at most
\* MinFeatures features; a collection of the routes with more features is
\* returned as it is, with no zone query issued.
C19_EscalationConditional ==
    [][\A p \in Loaders :
          LET l == loader[p]
              m == loader'[p]
          IN /\ (m.pc = "fetch" /\ m.strategy = "zones")
                => (m.primary \in 0..MinFeatures /\ m.queries > NumRoutes)
             /\ (m.pc = "fetch" /\ m.strategy = "routes")
                => (m.primary = -1 /\ m.queries <= NumRoutes)
             /\ (m.pc = "saveToCache" /\ m.strategy = "routes")
                => (Len(m.data.features) > MinFeatures /\ m.queries = NumRoutes)
             /\ (l.strategy = "routes" /\ m.strategy = "zones")
                => (l.pc = "fetch" /\ Cardinality(l.inflight) = 1
                    /\ l.queries = NumRoutes)]_vars

\* the zones are being queried after the routes gave MinFeatures features
C19_Witness ==
    \E p \in Loaders :
        /\ loader[p].pc = "fetch"
        /\ loader[p].strategy = "zones"
        /\ loader[p].primary = MinFeatures
        /\ loader[p].queries > NumRoutes

BatchSize(l) == IF l.strategy = "routes" THEN RouteChunkSize ELSE ZoneChunkSize

\* C20: at most one batch of queries is in flight, and queries are issued
\* only when none is in flight: at the start of the fetch, or in the step in
\* which the last query of the preceding batch settles.
C20_BatchBarrier ==
    [][\A p \in Loaders :
          LET l == loader[p]
              m == loader'[p]
          IN /\ Cardinality(m.inflight) <= BatchSize(m)
             /\ m.queries - l.queries <= BatchSize(m)
             /\ (m.queries > l.queries /\ l.pc = "fetch") => Cardinality(l.inflight) = 1
             /\ (m.queries > l.queries /\ l.pc # "fetch") => l.inflight = {}]_vars

\* the second batch of routes is in flight after a query of the first failed
C20_Witness ==
    \E p \in Loaders :
        /\ loader[p].pc = "fetch"
        /\ loader[p].strategy = "routes"
        /\ loader[p].i > 1
        /\ loader[p].inflight # {}
        /\ loader[p].failed

(***************************************************************************)
(* Properties of the cache operations called directly (CacheSpec).         *)
(***************************************************************************)
Last == client.last
Prev == client.prev

\* C11: every isCacheValid() call returns a boolean: true when the store held
\* an entry, the database could be opened and the entry was younger than
\* CACHE_DURATION_MS at that instant, false in every other case (no entry,
\* storage engine unavailable, age of exactly 24 hours or more).
C11_IsValidIffFresh ==
    Last.op = "isCacheValid"
    => /\ Last.settled = "resolved"
       /\ Last.result = ( /\ Last.outcome # "openError"
                          /\ Last.before # None
                          /\ Last.at - Last.before.timestamp < CACHE_DURATION_MS )

\* saveToCache(X) and then getFromCache(), nothing in between: the entry read
\* is the one of X
ReadsBack(put, get) ==
    /\ get.settled = "resolved"
    /\ get.result # None
    /\ get.result.data = put.arg
    /\ get.result.featureCount = Len(put.arg.features)

CountsFeatures(store) == store # None => store.featureCount = Len(store.data.features)

\* C12 as stated: getFromCache() right after saveToCache(X) returns an entry
\* with data X and featureCount = number of features of X; every stored entry
\* has featureCount = data.features.length.
C12_PutGetAlways ==
    /\ (Last.op = "getFromCache" /\ Prev.op = "saveToCache") => ReadsBack(Prev, Last)
    /\ CountsFeatures(cache)

\* C12, amended: the same when the storage requests of both calls succeeded.
C12_PutGetStored ==
    /\ (/\ Last.op = "getFromCache" /\ Prev.op = "saveToCache"
        /\ Last.outcome = "ok" /\ Prev.outcome = "ok") => ReadsBack(Prev, Last)
    /\ CountsFeatures(cache)

\* a collection of two features written over another entry and read back
C12_Witness ==
    /\ Last.op = "getFromCache" /\ Prev.op = "saveToCache"
    /\ Last.outcome = "ok" /\ Prev.outcome = "ok"
    /\ Prev.before # None /\ Prev.before.data # Prev.arg
    /\ Len(Last.result.data.features) = 2

\* C13: isCacheValid() right after a clearCache() that deleted the record
\* returns false, whatever the store held before.
C13_ClearThenInvalid ==
    (Last.op = "isCacheValid" /\ Prev.op = "clearCache" /\ Prev.outcome = "ok")
    => /\ Last.settled = "resolved"
       /\ Last.result = FALSE

\* C14: getFromCache() never rejects; when the database cannot be opened or
\* the read request errors it resolves to null.
C14_GetNeverRejects ==
    Last.op = "getFromCache"
    => /\ Last.settled = "resolved"
       /\ Last.outcome # "ok" => Last.result = None

\* what a single-slot register gives: getFromCache() returns the collection
\* of the last saveToCache when no clearCache followed it and null otherwise;
\* clearCache() on an empty store completes without error and leaves it empty
RegisterRead(get, register) ==
    /\ get.settled = "resolved"
    /\ IF register = None THEN get.result = None
       ELSE get.result # None /\ get.result.data = register

\* C15 as stated: after any sequence of saveToCache and clearCache calls the
\* store behaves as a single-slot register.
C15_RegisterAlways ==
    /\ Last.op = "getFromCache" => RegisterRead(Last, client.register)
    /\ (Last.op = "clearCache" /\ Last.before = None)
       => (Last.settled = "resolved" /\ cache = None)

\* C15, amended: the store behaves as a single-slot register as long as the
\* storage requests of the calls succeed; clearCache() on an empty store
\* always leaves it empty.
C15_RegisterWhenStored ==
    /\ (Last.op = "getFromCache" /\ Last.outcome = "ok" /\ client.clean)
       => RegisterRead(Last, client.register)
    /\ (Last.op = "clearCache" /\ Last.before = None)
       => (cache = None /\ (Last.outcome = "ok" => Last.settled = "resolved"))

\* a read that returns nothing because a clearCache followed the last write
C15_Witness ==
    /\ Last.op = "getFromCache" /\ Last.outcome = "ok" /\ client.clean
    /\ Prev.op = "clearCache" /\ Prev.before # None
    /\ Last.result = None

(***************************************************************************)
(* The merge of the partition units, under FetchSpec.                      *)
(***************************************************************************)
\* loadNationalRoads or loadByMultipleZones has returned its collection: the
\* routes have all settled, or the run has returned what the zones gave
Returned == log.primary # None \/ loader["map"].pc = "saveToCache"

\* the strategy whose answers the log holds, its units, its collection
Strategy == IF log.primary # None THEN "routes" ELSE "zones"
Units == IF Strategy = "routes" THEN Routes ELSE Zones
Collection == IF log.primary # None THEN log.primary ELSE loader["map"].data

\* what the query of unit u handed to the merge loop
Handed(u) ==
    IF Strategy = "routes"
    THEN RouteResult(log.answers[u]) ELSE ZoneResult(log.answers[u])

\* the features handed to the merge loop by units 1..n, in the order of the list
RECURSIVE Flat(_)
Flat(n) == IF n = 0 THEN <<>> ELSE Flat(n - 1) \o Handed(n)

\* C21: when several copies of an identifier are handed to the merge, by
\* different units or by one, the returned collection carries for that
\* identifier exactly the copy that comes first in the order of the unit list
\* and of the responses; no later copy replaces or alters it.
C21_FirstOccurrenceWins ==
    Returned =>
        LET features == Collection.features
            flat == Flat(Cardinality(Units))
        IN \A k \in 1..Len(features) :
              \E j \in 1..Len(flat) :
                 /\ DedupId(flat[j]) = DedupId(features[k])
                 /\ \A i \in 1..(j - 1) : DedupId(flat[i]) # DedupId(features[k])
                 /\ features[k] = flat[j]

\* two units have handed differing copies of one identifier, and the returned
\* collection carries the first
C21_Witness ==
    /\ Returned
    /\ \E u, v \in Units : \E a \in 1..Len(Handed(u)), b \in 1..Len(Handed(v)) :
          /\ u < v
          /\ Truthy(DedupId(Handed(u)[a]))
          /\ DedupId(Handed(u)[a]) = DedupId(Handed(v)[b])
          /\ Handed(u)[a] # Handed(v)[b]
          /\ \A w \in 1..(u - 1) : DedupId(Handed(u)[a]) \notin Ids(Handed(w))
          /\ \A c \in 1..(a - 1) : DedupId(Handed(u)[c]) # DedupId(Handed(u)[a])
          /\ \E k \in 1..Len(Collection.features) :
                Collection.features[k] = Handed(u)[a]

\* the positions of Flat that open an identifier: truthy, and not met before
Firsts(flat) ==
    {j \in 1..Len(flat) :
        /\ Truthy(DedupId(flat[j]))
        /\ \A i \in 1..(j - 1) : DedupId(flat[i]) # DedupId(flat[j])}

\* some unit settled before a unit that precedes it in the list
OutOfOrder ==
    \E a, b \in 1..Len(log.order) : a < b /\ log.order[a] > log.order[b]

\* C28: the returned collection, content and order, is a function of what
\* the units answered alone: it is the list-order concatenation of the
\* answers with falsy and repeated identifiers struck out, in whatever order
\* the queries of a batch settled.
C28_MergeIgnoresCompletionOrder ==
    Returned =>
        LET features == Collection.features
            flat == Flat(Cardinality(Units))
            firsts == Firsts(flat)
        IN /\ Len(features) = Cardinality(firsts)
           /\ \A j \in firsts :
                 features[Cardinality({i \in firsts : i <= j})] = flat[j]

\* a later unit of a batch settled first, the two handed differing copies of
\* one identifier, and the collection was returned
C28_Witness ==
    /\ Returned
    /\ OutOfOrder
    /\ \E a, b \in 1..Len(log.order) :
          /\ a < b /\ log.order[a] > log.order[b]
          /\ \E x \in 1..Len(Handed(log.order[a])), y \in 1..Len(Handed(log.order[b])) :
                /\ Truthy(DedupId(Handed(log.order[a])[x]))
                /\ DedupId(Handed(log.order[a])[x]) = DedupId(Handed(log.order[b])[y])
                /\ Handed(log.order[a])[x] # Handed(log.order[b])[y]
    /\ Len(Collection.features) > 1

\* the query of unit u succeeded: it answered, and for a zone no record made
\* the map() callback throw
Succeeded(u) ==
    /\ log.answers[u].ok
    /\ Strategy = "zones" =>
           \A k \in 1..Len(log.answers[u].results) : ~ZoneThrows(log.answers[u].results[k])

\* the truthy identifiers of the raw records the succeeded units answered with
AnsweredIds ==
    UNION { {Or(log.answers[u].results[k].featureId, log.answers[u].results[k].id) :
                k \in 1..Len(log.answers[u].results)} :
            u \in {v \in Units : Succeeded(v)} } \ {0}

\* C29: the identifiers of the returned collection are exactly the truthy
\* identifiers of the records that the succeeded units answered with; only
\* records without a truthy identifier leave no trace.
C29_NoIdentifiedFeatureLost ==
    Returned =>
        Ids(Collection.features) = AnsweredIds

\* loadNationalRoads returned a single feature, though one unit failed,
\* another answered a record without identifier and two answered copies
C29_Witness ==
    /\ Returned
    /\ Strategy = "routes"
    /\ \E u \in Units : ~log.answers[u].ok
    /\ \E u \in Units : \E k \in 1..Len(log.answers[u].results) :
          log.answers[u].results[k] = RecNoId
    /\ \E u, v \in Units : u # v /\ 1 \in Ids(Handed(u)) /\ 1 \in Ids(Handed(v))
    /\ Ids(Collection.features) = {1}

(***************************************************************************)
(* Overlapping calls, under OverlapSpec.                                   *)
(***************************************************************************)
\* C22: nothing serializes overlapping calls.  Whenever a call completes its
\* write, the store holds the collection that call fetched, whatever the
\* other call has fetched or written in between, and the step changes
\* nothing of the other call: the last write to complete decides the entry.
C22_LastWriteWins ==
    [][\A p \in Loaders :
          loader'[p].writes > loader[p].writes =>
             /\ cache' = CacheEntry(loader[p].data, now)
             /\ \A q \in Loaders \ {p} : loader'[q] = loader[q]]_vars

\* both calls found no valid entry, both fetched and both wrote; the entry
\* left in the store is the collection of the fetch that began first, not the
\* one the later fetch returned
C22_Witness ==
    \E p, q \in Loaders :
        /\ loader[p].branch = "api" /\ loader[q].branch = "api"
        /\ loader[p].writes = 1 /\ loader[q].writes = 1
        /\ loader[p].queries > 0 /\ loader[q].queries > 0
        /\ loader[p].began = 1 /\ loader[q].began = 2
        /\ loader[p].data # loader[q].data
        /\ cache # None /\ cache.data = loader[p].data

(***************************************************************************)
(* The status registry, under RegistrySpec.                                *)
(***************************************************************************)
\* the last step was an updateSystemStatus call
Updated == observer'.updates # observer.updates

\* C23: the registry holds exactly one record for each subsystem created at
\* start-up, each under its own id.  Only an update changes it; an update of
\* an unknown id changes nothing; an update of a known id leaves the other
\* records alone, and in the target record sets the supplied fields, keeps
\* the others and sets lastCheck to the instant of the call.
C23_RegistryShape ==
    [][/\ DOMAIN systems' = SystemIds
       /\ \A id \in SystemIds : systems'[id].id = id
       /\ ~Updated => systems' = systems
       /\ Updated =>
            LET systemId == observer'.last.systemId
                update == observer'.last.update
            IN IF systemId \notin SystemIds THEN systems' = systems
               ELSE /\ \A id \in SystemIds \ {systemId} : systems'[id] = systems[id]
                    /\ DOMAIN systems'[systemId] =
                          DOMAIN systems[systemId] \cup DOMAIN update \cup {"lastCheck"}
                    /\ \A f \in DOMAIN systems'[systemId] :
                          systems'[systemId][f] =
                              IF f = "lastCheck" THEN now
                              ELSE IF f \in DOMAIN update THEN update[f]
                              ELSE systems[systemId][f]]_vars

\* an update of the unknown id has just been made, after updates that changed
\* the record of network-layer and that tried to set lastCheck themselves
C23_Witness ==
    /\ observer.updates = MaxUpdates
    /\ observer.last.systemId \notin SystemIds
    /\ systems["network-layer"].state = "online"
    /\ "status" \in DOMAIN systems["network-layer"]
    /\ systems["network-layer"].lastCheck = now
    /\ now > 0
    /\ systems["tomtom-api"] = defaultSystems["tomtom-api"]

\* C24: an update of a known id calls every callback subscribed at that
\* moment exactly once, and the callback finds the replaced record in the
\* registry; no other step calls any callback, so an update of an unknown id
\* notifies nobody and a callback that was unsubscribed is not called again.
C24_NotifiedOncePerUpdate ==
    [][\A cb \in Callbacks :
          LET n == observer'.calls[cb] - observer.calls[cb]
              effective == Updated /\ observer'.last.systemId \in SystemIds
          IN /\ n = IF effective /\ cb \in observer.listeners THEN 1 ELSE 0
             /\ n = 1 => observer'.saw[cb] = systems']_vars

\* a callback was told of one update and unsubscribed; the next update was
\* told to the other callback only
C24_Witness ==
    \E a, b \in Callbacks :
        /\ observer.calls[a] = 1 /\ a \notin observer.listeners
        /\ observer.calls[b] = 2 /\ b \in observer.listeners
        /\ observer.saw[b] = systems
        /\ observer.saw[a] # systems
        /\ observer.updates = 2

(***************************************************************************)
(* The statistics of a load, under Spec.                                   *)
(***************************************************************************)
\* C25: the statistics a resolved call reports are those of the collection it
\* returns: totalFeatures is its length, points the number of its Point
\* features, mainAxes and ramps together the number of its line features,
\* and ramps the number of line features whose stored isRamp flag is set,
\* the classification made again at load time agreeing with the flag.
C25_StatsMatchCollection ==
    \A p \in Loaders :
        loader[p].pc = "resolved" =>
            LET features == loader[p].result.data.features
                stats == loader[p].result.stats
                lines == {k \in 1..Len(features) : IsLine(features[k])}
            IN /\ stats.totalFeatures = Len(features)
               /\ stats.points =
                     Cardinality({k \in 1..Len(features) : features[k].geometry = "Point"})
               /\ stats.mainAxes + stats.ramps = Cardinality(lines)
               /\ stats.ramps =
                     Cardinality({k \in lines : features[k].properties.isRamp})

\* a call served from the cache reports one ramp and one point and no main axis
C25_Witness ==
    /\ loader["map"].pc = "resolved" /\ loader["map"].branch = "hit"
    /\ loader["map"].result.stats =
          [totalFeatures |-> 2, mainAxes |-> 0, ramps |-> 1, points |-> 1]

(***************************************************************************)
(* The load handler of the map, under MapSpec.                             *)
(***************************************************************************)
\* the handler marked network-layer as degraded
MarkedDegraded ==
    /\ systems["network-layer"].state = "degraded"
    /\ "lastError" \in DOMAIN systems["network-layer"]

\* C26: the source and the layers are added only at the end of the handler,
\* and then a dataset is there and isLoading was lowered before they were
\* added.  The dataset is the one of the result when the call resolved; it
\* is the bundled one exactly when the call rejected, and exactly then the
\* handler has marked network-layer as degraded.
C26_HandlerEndsWithDataset ==
    /\ map.layers <=> map.pc = "ready"
    /\ map.pc = "ready" =>
          /\ map.networkData # None
          /\ ~map.isLoading /\ ~map.pending
          /\ loader["map"].pc \in {"resolved", "rejected"}
          /\ loader["map"].pc = "resolved" =>
                map.networkData = loader["map"].result.data
          /\ loader["map"].pc = "rejected" <=> map.networkData = mockNetworkData
          /\ loader["map"].pc = "rejected" <=> MarkedDegraded

\* the call rejected after a fetch, and the map shows the bundled dataset
C26_Witness ==
    /\ map.pc = "ready" /\ map.layers /\ ~map.isLoading
    /\ loader["map"].pc = "rejected" /\ loader["map"].queries > 0
    /\ map.networkData = mockNetworkData
    /\ MarkedDegraded

(***************************************************************************)
(* The status updates of a fetching call, under Spec.                      *)
(***************************************************************************)
\* the health state an update object announces, under whichever of the two
\* field names it carries it
Announced(update) ==
    IF "state" \in DOMAIN update THEN update.state
    ELSE IF "status" \in DOMAIN update THEN update.status
    ELSE "none"

\* C27: a call that issues remote queries has emitted the 'loading' update
\* before the first of them, and when it has settled it has emitted exactly
\* one more update, announcing online, degraded or offline: 'loading' is
\* never the last update of a settled call.
C27_LoadingThenTerminal ==
    \A p \in Loaders :
        LET l == loader[p] IN
        /\ l.queries > 0 =>
              /\ Len(l.updates) >= 1
              /\ Announced(l.updates[1]) = "loading"
        /\ (Settled(l) /\ l.queries > 0) =>
              /\ Len(l.updates) = 2
              /\ Announced(l.updates[2]) \in {"online", "degraded", "offline"}

(***************************************************************************)
(* Forced refresh, under Spec (the calls do not overlap).                  *)
(***************************************************************************)
\* C30: a call with forceRefresh set whose cache operations all worked never
\* resolves with source "cache"; when every remote query of such a call has
\* failed, the call rejects and the store is left empty, whatever entry it
\* held when the call was made.
C30_ForcedRefreshNeverServesCache ==
    \A p \in Loaders :
        LET l == loader[p] IN
        (Settled(l) /\ l.forceRefresh /\ ~l.faults) =>
            /\ l.pc = "resolved" => l.result.source # "cache"
            /\ EveryQueryFailed(l) => (l.pc = "rejected" /\ cache = None)

====
